---- MODULE Spec2Model ----
(***************************************************************************)
(* State-machine model of ModalityClient (src/src/lib.rs): the session     *)
(* object that maps Robot Framework suite/test hooks to timelines, interned *)
(* attribute keys and ordered events of the ingest client.                 *)
(*                                                                         *)
(* Every public method is one action.  A method body is translated as a    *)
(* chain of steps over a context record; a step whose predecessor returned *)
(* an error does nothing, which is the `?` early return of the source.     *)
(* The ingest client (auxon_sdk DynamicIngestClient) is modelled at its    *)
(* call sites: each fallible call either succeeds or returns an error, as  *)
(* chosen by the `fail` input of the action.                               *)
(***************************************************************************)
EXTENDS Integers, Sequences, FiniteSets, TLC

\* ------------------------------------------------------------------ bounds
MaxTimelines == 2       \* TimelineId::allocate() calls explored
MaxOrdering  == 3       \* successfully submitted events explored
MaxFail      == 1       \* operations that end in an ingest error

\* ------------------------------------------------------- program constants
InitialNonce    == 1    \* global_nonce: 1 in new()
InitialOrdering == 0    \* ordering: 0 in new()

\* ------------------------------------------------------------------ inputs
\* Suite and test names are only stored, compared for equality and sent as
\* attribute values, so a few names stand for all of them.
SuiteNames == {"S1", "S2"}
TestNames  == {"T1"}
ComponentNames == {"compA"}
Clock == {1700000000}                 \* SystemTime::now(), as nanoseconds
\* The process environment and the constructor argument: MODALITY_RUN_ID
\* (unset, or set) and additional_timeline_attrs after parsing, in the
\* iteration order of the map.
Configs == { [run_id |-> "RUN42", extra |-> << <<"env", "ci">> >>],
             [run_id |-> "None",  extra |-> << <<"name", "custom">> >>] }

None == "None"          \* Option::None of a name
NoTimeline == 0         \* Option::None of a TimelineId
Ok == "Ok"
NoSuiteActive == "NoSuiteActive"
IngestError == "Ingest"
NoFailure == "NoFailure"

VARIABLES
    active_suite,          \* Option<SuiteName>
    tests_to_timelines,    \* HashMap<TestName, TimelineId>
    extra_timeline_attrs,  \* HashMap<AttrKey, AttrVal>, as a sequence of pairs
    global_nonce,          \* u32
    ordering,              \* u128
    attrs,                 \* HashMap<String, InternedAttrKey>
    gw_selected,           \* the ingest client's bound timeline
    gw_keys,               \* names the ingest client has interned; handle = index
    declare_calls,         \* per name, how often client.declare_attr_key ran
    metadata,              \* timeline metadata the ingest client has accepted
    tokens,                \* the ordering tokens of the events it has accepted
    next_timeline,         \* the identity TimelineId::allocate() returns next
    next_uuid,             \* the value Uuid::new_v4() returns next
    run_id_env,            \* std::env::var(MODALITY_RUN_ID)
    lastOp,                \* the public call that ran last
    result,                \* the Result it returned: Ok or the error
    returned,              \* the value inside Ok (start_component's nonce)
    calls,                 \* the ingest-client calls it made, in order
    nfail                  \* operations that returned an ingest error so far

vars == << active_suite, tests_to_timelines, extra_timeline_attrs, global_nonce,
           ordering, attrs, gw_selected, gw_keys, declare_calls, metadata,
           tokens, next_timeline, next_uuid, run_id_env, lastOp, result,
           returned, calls, nfail >>

\* The fields of the session and of the ingest client, without the history
\* of the last call.
session == << active_suite, tests_to_timelines, extra_timeline_attrs,
              global_nonce, ordering, attrs >>
gateway == << gw_selected, gw_keys, declare_calls, metadata, tokens >>

\* ------------------------------------------------------- small utilities
\* HashMap::insert on a map held as a function: the new value replaces an
\* old one under the same key.
MapInsert(m, k, v) == (k :> v) @@ m

\* Mutant of MapRemove: the entry is looked up and left in place.
MapRemove_keeps(m, k) == m

\* HashMap::remove
MapRemove(m, k) == [x \in (DOMAIN m) \ {k} |-> m[x]]

EmptyMap == << >>

\* One entry of the per-call log of ingest-client calls: the call, the
\* timeline it names or finds bound, the key name, ordering token and
\* attribute map it passes, and whether it succeeded.
CallWith(name, tl, key, ord, m, ok) ==
    [call |-> name, tl |-> tl, key |-> key, ord |-> ord, m |-> m, ok |-> ok]

Call(name, tl, key, ok) == CallWith(name, tl, key, 0, EmptyMap, ok)

\* ------------------------------------------------- the context of one call
\* The state a method body reads and writes, plus the locals it threads
\* through its steps: err (the Result so far), fail (the kind of ingest-client
\* call that fails in this call, if any), local (the attribute map under
\* construction), ikey (the value declare_attr_key returned), timeline_id and
\* timeline_is_new (the locals of on_test_setup) and ret (the value the
\* method returns on success).
Ctx(fail) ==
    [ active_suite |-> active_suite,
      tests_to_timelines |-> tests_to_timelines,
      global_nonce |-> global_nonce,
      ordering |-> ordering,
      attrs |-> attrs,
      gw_selected |-> gw_selected,
      gw_keys |-> gw_keys,
      declare_calls |-> declare_calls,
      metadata |-> metadata,
      tokens |-> tokens,
      next_timeline |-> next_timeline,
      next_uuid |-> next_uuid,
      err |-> Ok,
      fail |-> fail,
      calls |-> << >>,
      local |-> EmptyMap,
      ikey |-> 0,
      timeline_id |-> NoTimeline,
      timeline_is_new |-> FALSE,
      ret |-> 0 ]

\* A fallible ingest-client call fails when it is of the failing kind; the
\* error ends the method, so at most one call fails in it.
Fails(c, kind) == c.fail = kind

\* The call failed: the method returns Error::Ingest / Error::DynamicIngest.
Failed(c, call) ==
    [c EXCEPT !.err = IngestError,
              !.calls = Append(@, call)]

\* ------------------------------------------------------ the ingest client
\* client.open_timeline(id): binds id as the target of metadata and events.
open_timeline(c, id) ==
    IF c.err # Ok THEN c
    ELSE IF Fails(c, "open_timeline") THEN Failed(c, Call("open_timeline", id, "", FALSE))
    ELSE [c EXCEPT !.gw_selected = id,
                   !.calls = Append(@, Call("open_timeline", id, "", TRUE))]

\* client.close_timeline(): unbinds; it returns nothing and cannot fail.
close_timeline(c) ==
    IF c.err # Ok THEN c
    ELSE [c EXCEPT !.gw_selected = NoTimeline,
                   !.calls = Append(@, Call("close_timeline", c.gw_selected, "", TRUE))]

\* client.flush()
flush(c) ==
    IF c.err # Ok THEN c
    ELSE IF Fails(c, "flush") THEN Failed(c, Call("flush", c.gw_selected, "", FALSE))
    ELSE [c EXCEPT
                   !.calls = Append(@, Call("flush", c.gw_selected, "", TRUE))]

\* client.declare_attr_key(name): interns name and returns the new handle.
DeclareCount(dc, k) == IF k \in DOMAIN dc THEN dc[k] ELSE 0

client_declare_attr_key(c, k) ==
    IF c.err # Ok THEN c
    ELSE LET counted == [c EXCEPT !.declare_calls =
                                      MapInsert(@, k, DeclareCount(@, k) + 1)] IN
         IF Fails(c, "declare_attr_key") THEN Failed(counted, Call("declare_attr_key", c.gw_selected, k, FALSE))
         ELSE [counted EXCEPT
                   !.gw_keys = Append(@, k),
                   !.ikey = Len(c.gw_keys) + 1,
                   !.calls = Append(@, Call("declare_attr_key", c.gw_selected, k, TRUE))]

\* client.timeline_metadata(attrs): the dynamic client refuses it with an
\* error when no timeline is bound.
timeline_metadata(c, m) ==
    IF c.err # Ok THEN c
    ELSE IF Fails(c, "timeline_metadata") \/ c.gw_selected = NoTimeline
         THEN Failed(c, CallWith("timeline_metadata", c.gw_selected, "", 0, m, FALSE))
    ELSE [c EXCEPT !.metadata = Append(@, [timeline |-> c.gw_selected, attrs |-> m]),
                   !.calls = Append(@, CallWith("timeline_metadata", c.gw_selected,
                                                "", 0, m, TRUE))]

\* client.event(ordering, attrs): the dynamic client refuses it with an
\* error when no timeline is bound.
client_event(c, ord, m) ==
    IF c.err # Ok THEN c
    ELSE IF Fails(c, "event") \/ c.gw_selected = NoTimeline
         THEN Failed(c, CallWith("event", c.gw_selected, "", ord, m, FALSE))
    ELSE [c EXCEPT !.tokens = Append(@, ord),
                   !.calls = Append(@, CallWith("event", c.gw_selected, "", ord, m, TRUE))]

\* Mutant of declare_attr_key: the cache is not consulted.
declare_attr_key_nocache(c, k) ==
    IF c.err # Ok THEN c
    ELSE LET d == client_declare_attr_key(c, k) IN
         IF d.err # Ok THEN d
         ELSE [d EXCEPT !.attrs = MapInsert(@, k, d.ikey)]

\* ------------------------------------------------------- declare_attr_key
\* Returns the cached handle, or declares the name and caches the handle.
declare_attr_key(c, k) ==
    IF c.err # Ok THEN c
    ELSE IF k \in DOMAIN c.attrs
         THEN [c EXCEPT !.ikey = c.attrs[k]]
    ELSE LET d == client_declare_attr_key(c, k) IN
         IF d.err # Ok THEN d
         ELSE [d EXCEPT !.attrs = MapInsert(@, k, d.ikey)]

\* attrs.insert(declare_attr_key(k)?, v) on the map under construction
insert_declared(c, k, v) ==
    LET d == declare_attr_key(c, k) IN
    IF d.err # Ok THEN d
    ELSE [d EXCEPT !.local = MapInsert(@, d.ikey, v)]

\* for kv in attrs { iattrs.insert(declare_attr_key(kv.0)?, kv.1) }
RECURSIVE insert_all(_, _)
insert_all(c, kvs) ==
    IF kvs = << >> \/ c.err # Ok THEN c
    ELSE insert_all(insert_declared(c, kvs[1][1], kvs[1][2]), Tail(kvs))

\* Mutant of event: the counter moves on also when the submission failed.
event_counts_failures(c, kvs, now) ==
    IF c.err # Ok THEN c
    ELSE LET c0 == [c EXCEPT !.local = EmptyMap]
             c1 == insert_all(c0, kvs)
             c2 == insert_declared(c1, "event.timestamp", now)
             c3 == client_event(c2, c2.ordering, c2.local)
         IN  IF c2.err # Ok THEN c2
             ELSE [c3 EXCEPT !.ordering = @ + 1]

\* ------------------------------------------------------------------ event
event(c, kvs, now) ==
    IF c.err # Ok THEN c
    ELSE LET c0 == [c EXCEPT !.local = EmptyMap]
             c1 == insert_all(c0, kvs)
             c2 == insert_declared(c1, "event.timestamp", now)
             c3 == client_event(c2, c2.ordering, c2.local)
         IN  IF c3.err # Ok THEN c3
             ELSE [c3 EXCEPT !.ordering = @ + 1]

\* Mutant of on_suite_teardown: the timeline stays bound.
on_suite_teardown_keeps_timeline(c) ==
    IF c.err # Ok THEN c
    ELSE IF c.active_suite # None
         THEN flush([c EXCEPT !.active_suite = None])
         ELSE c

\* Mutant of on_suite_teardown: the ordering counter restarts with the suite.
on_suite_teardown_resets(c) ==
    IF c.err # Ok THEN c
    ELSE IF c.active_suite # None
         THEN flush(close_timeline([c EXCEPT !.active_suite = None,
                                             !.ordering = InitialOrdering]))
         ELSE c

\* Mutant of on_suite_teardown: the suite is cleared once the flush succeeded.
on_suite_teardown_clears_late(c) ==
    IF c.err # Ok THEN c
    ELSE IF c.active_suite # None
         THEN LET f == flush(close_timeline(c)) IN
              IF f.err # Ok THEN f ELSE [f EXCEPT !.active_suite = None]
         ELSE c

\* ------------------------------------------------------- the public methods
on_suite_teardown(c) ==
    IF c.err # Ok THEN c
    ELSE IF c.active_suite # None
         THEN flush(close_timeline([c EXCEPT !.active_suite = None]))
         ELSE c

\* Mutant of on_suite_setup: the error of the implicit teardown is dropped.
on_suite_setup_swallows(c, suite_name) ==
    LET c1 == IF c.active_suite # None THEN on_suite_teardown(c) ELSE c IN
    [c1 EXCEPT !.active_suite = suite_name, !.err = Ok]

on_suite_setup(c, suite_name) ==
    LET c1 == IF c.active_suite # None THEN on_suite_teardown(c) ELSE c IN
    IF c1.err # Ok THEN c1
    ELSE [c1 EXCEPT !.active_suite = suite_name]

\* Uuid::new_v4().to_string()
UuidString(n) == "uuid-" \o ToString(n)

\* format!("timeline.{}", k) over extra_timeline_attrs.iter()
ExtraKvs == [i \in 1..Len(extra_timeline_attrs) |->
                << "timeline." \o extra_timeline_attrs[i][1],
                   extra_timeline_attrs[i][2] >>]

\* The body of `if timeline_is_new { ... }`
write_timeline_metadata(c, suite_name, test_name, timeline_id) ==
    IF c.err # Ok THEN c
    ELSE LET env_set == run_id_env # None
             run_id == IF env_set THEN run_id_env ELSE UuidString(c.next_uuid)
             c0 == [c EXCEPT !.local = EmptyMap,
                             !.next_uuid = IF env_set THEN @ ELSE @ + 1]
             c1 == insert_all(c0,
                     << <<"timeline.name", "robot_framework">>,
                        <<"timeline.robot_framework.suite.name", suite_name>>,
                        <<"timeline.robot_framework.test.name", test_name>>,
                        <<"timeline.id", timeline_id>>,
                        <<"timeline.clock_style", "utc">>,
                        <<"timeline.run_id", run_id>> >>)
             c2 == insert_all(c1, ExtraKvs)
         IN  timeline_metadata(c2, c2.local)

\* Mutant of resolve_or_create: a known timeline is taken for a new one.
resolve_or_create_always_new(c, test_name) ==
    IF test_name \in DOMAIN c.tests_to_timelines
    THEN [c EXCEPT !.timeline_id = c.tests_to_timelines[test_name],
                   !.timeline_is_new = TRUE]
    ELSE [c EXCEPT !.tests_to_timelines = MapInsert(@, test_name, c.next_timeline),
                   !.next_timeline = @ + 1,
                   !.timeline_id = c.next_timeline,
                   !.timeline_is_new = TRUE]

\* tests_to_timelines.entry(test_name).or_insert_with(|| { timeline_is_new =
\* true; TimelineId::allocate() }): every allocation returns an identity
\* never returned before.
resolve_or_create(c, test_name) ==
    IF test_name \in DOMAIN c.tests_to_timelines
    THEN [c EXCEPT !.timeline_id = c.tests_to_timelines[test_name],
                   !.timeline_is_new = FALSE]
    ELSE [c EXCEPT !.tests_to_timelines = MapInsert(@, test_name, c.next_timeline),
                   !.next_timeline = @ + 1,
                   !.timeline_id = c.next_timeline,
                   !.timeline_is_new = TRUE]

\* Mutant of on_test_setup: the timeline is opened after its metadata is
\* written.
on_test_setup_opens_late(c, test_name, now) ==
    IF c.active_suite = None THEN [c EXCEPT !.err = NoSuiteActive]
    ELSE LET suite_name == c.active_suite
             c1 == resolve_or_create(c, test_name)
             c2 == IF c1.timeline_is_new
                   THEN write_timeline_metadata(c1, suite_name, test_name,
                                                c1.timeline_id)
                   ELSE c1
             c3 == open_timeline(c2, c1.timeline_id)
         IN  event(c3, << <<"event.name", "test_setup">>,
                          <<"event.suite.name", suite_name>>,
                          <<"event.test.name", test_name>> >>, now)

on_test_setup(c, test_name, now) ==
    IF c.active_suite = None THEN [c EXCEPT !.err = NoSuiteActive]
    ELSE LET suite_name == c.active_suite
             c1 == resolve_or_create(c, test_name)
             c2 == open_timeline(c1, c1.timeline_id)
             c3 == IF c1.timeline_is_new
                   THEN write_timeline_metadata(c2, suite_name, test_name,
                                                c1.timeline_id)
                   ELSE c2
         IN  event(c3, << <<"event.name", "test_setup">>,
                          <<"event.suite.name", suite_name>>,
                          <<"event.test.name", test_name>> >>, now)

\* Mutant of on_test_teardown: the entry is removed once the event is
\* accepted.
on_test_teardown_removes_late(c, test_name, now) ==
    IF c.active_suite = None THEN [c EXCEPT !.err = NoSuiteActive]
    ELSE LET suite_name == c.active_suite IN
         IF test_name \in DOMAIN c.tests_to_timelines
         THEN LET timeline_id == c.tests_to_timelines[test_name]
                  c2 == open_timeline(c, timeline_id)
                  c3 == event(c2, << <<"event.name", "test_teardown">>,
                                     <<"event.suite.name", suite_name>>,
                                     <<"event.test.name", test_name>> >>, now)
              IN  IF c3.err # Ok THEN c3
                  ELSE [c3 EXCEPT !.tests_to_timelines = MapRemove(@, test_name)]
         ELSE c

on_test_teardown(c, test_name, now) ==
    IF c.active_suite = None THEN [c EXCEPT !.err = NoSuiteActive]
    ELSE LET suite_name == c.active_suite IN
         IF test_name \in DOMAIN c.tests_to_timelines
         THEN LET timeline_id == c.tests_to_timelines[test_name]
                  c1 == [c EXCEPT !.tests_to_timelines = MapRemove(@, test_name)]
                  c2 == open_timeline(c1, timeline_id)
              IN  event(c2, << <<"event.name", "test_teardown">>,
                               <<"event.suite.name", suite_name>>,
                               <<"event.test.name", test_name>> >>, now)
         ELSE c

\* Mutant of test_result: the timeline is resolved as on_test_setup does.
test_result_creates(c, test_name, res, code, now) ==
    IF c.active_suite = None THEN [c EXCEPT !.err = NoSuiteActive]
    ELSE LET suite_name == c.active_suite
             c0 == resolve_or_create(c, test_name)
             c1 == open_timeline(c0, c0.timeline_id)
         IN  event(c1, << <<"event.name", "test_result">>,
                          <<"event.suite.name", suite_name>>,
                          <<"event.test.name", test_name>>,
                          <<"event.test.result", res>>,
                          <<"event.test.result.code", code>> >>, now)

\* Mutant of test_result: a missing suite is treated like a missing test.
test_result_unchecked(c, test_name, res, code, now) ==
    IF c.active_suite = None \/ test_name \notin DOMAIN c.tests_to_timelines
    THEN c
    ELSE LET suite_name == c.active_suite
             timeline_id == c.tests_to_timelines[test_name]
             c1 == open_timeline(c, timeline_id)
         IN  event(c1, << <<"event.name", "test_result">>,
                          <<"event.suite.name", suite_name>>,
                          <<"event.test.name", test_name>>,
                          <<"event.test.result", res>>,
                          <<"event.test.result.code", code>> >>, now)

\* Mutant of test_result: the event goes to whichever timeline is bound.
test_result_no_open(c, test_name, res, code, now) ==
    IF c.active_suite = None THEN [c EXCEPT !.err = NoSuiteActive]
    ELSE LET suite_name == c.active_suite IN
         IF test_name \in DOMAIN c.tests_to_timelines
         THEN event(c, << <<"event.name", "test_result">>,
                          <<"event.suite.name", suite_name>>,
                          <<"event.test.name", test_name>>,
                          <<"event.test.result", res>>,
                          <<"event.test.result.code", code>> >>, now)
         ELSE c

\* on_test_passed and on_test_failed differ in the result and its code only.
test_result(c, test_name, res, code, now) ==
    IF c.active_suite = None THEN [c EXCEPT !.err = NoSuiteActive]
    ELSE LET suite_name == c.active_suite IN
         IF test_name \in DOMAIN c.tests_to_timelines
         THEN LET timeline_id == c.tests_to_timelines[test_name]
                  c1 == open_timeline(c, timeline_id)
              IN  event(c1, << <<"event.name", "test_result">>,
                               <<"event.suite.name", suite_name>>,
                               <<"event.test.name", test_name>>,
                               <<"event.test.result", res>>,
                               <<"event.test.result.code", code>> >>, now)
         ELSE c

on_test_passed(c, test_name, now) == test_result(c, test_name, "passed", 0, now)

on_test_failed(c, test_name, now) == test_result(c, test_name, "failed", 1, now)

\* Mutant of start_component: the nonce is taken from the ordering counter.
start_component_uses_ordering(c, component_name, now) ==
    LET nonce == c.ordering
        c1 == [c EXCEPT !.global_nonce = @ + 1]
        c2 == event(c1, << <<"event.name", "start_component">>,
                           <<"event.nonce", nonce>>,
                           <<"event.component_name", component_name>> >>, now)
    IN  IF c2.err # Ok THEN c2 ELSE [c2 EXCEPT !.ret = nonce]

\* global_nonce is a u32 and ordering a u128; the bounds keep both far from
\* their widths, so `+= 1` is modelled without overflow.
start_component(c, component_name, now) ==
    LET nonce == c.global_nonce
        c1 == [c EXCEPT !.global_nonce = @ + 1]
        c2 == event(c1, << <<"event.name", "start_component">>,
                           <<"event.nonce", nonce>>,
                           <<"event.component_name", component_name>> >>, now)
    IN  IF c2.err # Ok THEN c2 ELSE [c2 EXCEPT !.ret = nonce]

\* ------------------------------------------------------------ the actions
\* The ingest-client calls that return a Result.
Fallible == {"open_timeline", "flush", "declare_attr_key", "timeline_metadata",
             "event"}

\* The failure inputs of one call: no ingest-client call fails, or the first
\* one of a kind the call makes does.
Failures(ok) ==
    {NoFailure} \cup
    (IF nfail < MaxFail
     THEN {ok.calls[i].call : i \in 1..Len(ok.calls)} \cap Fallible
     ELSE {})

\* The exploration stops at the bounds.
Within(c) ==
    /\ c.ordering <= MaxOrdering
    /\ c.next_timeline <= MaxTimelines + 1
    /\ nfail + (IF c.err = IngestError THEN 1 ELSE 0) <= MaxFail

\* The method has returned: its writes and its Result become the state.
Commit(c, op, arg) ==
    /\ Within(c)
    /\ active_suite' = c.active_suite
    /\ tests_to_timelines' = c.tests_to_timelines
    /\ global_nonce' = c.global_nonce
    /\ ordering' = c.ordering
    /\ attrs' = c.attrs
    /\ gw_selected' = c.gw_selected
    /\ gw_keys' = c.gw_keys
    /\ declare_calls' = c.declare_calls
    /\ metadata' = c.metadata
    /\ tokens' = c.tokens
    /\ next_timeline' = c.next_timeline
    /\ next_uuid' = c.next_uuid
    /\ lastOp' = [op |-> op, arg |-> arg]
    /\ result' = c.err
    /\ returned' = IF c.err = Ok THEN c.ret ELSE 0
    /\ calls' = c.calls
    /\ nfail' = nfail + (IF c.err = IngestError THEN 1 ELSE 0)
    /\ UNCHANGED << extra_timeline_attrs, run_id_env >>

\* ModalityClient::new: the state after construction.
Init ==
    /\ active_suite = None
    /\ tests_to_timelines = EmptyMap
    /\ \E cfg \in Configs : /\ extra_timeline_attrs = cfg.extra
                           /\ run_id_env = cfg.run_id
    /\ global_nonce = InitialNonce
    /\ ordering = InitialOrdering
    /\ attrs = EmptyMap
    /\ gw_selected = NoTimeline
    /\ gw_keys = << >>
    /\ declare_calls = EmptyMap
    /\ metadata = << >>
    /\ tokens = << >>
    /\ next_timeline = 1
    /\ next_uuid = 1
    /\ lastOp = [op |-> "new", arg |-> ""]
    /\ result = Ok
    /\ returned = 0
    /\ calls = << >>
    /\ nfail = 0

OnSuiteSetup ==
    \E s \in SuiteNames :
        \E b \in Failures(on_suite_setup(Ctx(NoFailure), s)) :
            Commit(on_suite_setup(Ctx(b), s), "on_suite_setup", s)

OnSuiteTeardown ==
    \E b \in Failures(on_suite_teardown(Ctx(NoFailure))) :
        Commit(on_suite_teardown(Ctx(b)), "on_suite_teardown", "")

OnTestSetup ==
    \E t \in TestNames, now \in Clock :
        \E b \in Failures(on_test_setup(Ctx(NoFailure), t, now)) :
            Commit(on_test_setup(Ctx(b), t, now), "on_test_setup", t)

OnTestTeardown ==
    \E t \in TestNames, now \in Clock :
        \E b \in Failures(on_test_teardown(Ctx(NoFailure), t, now)) :
            Commit(on_test_teardown(Ctx(b), t, now), "on_test_teardown", t)

OnTestPassed ==
    \E t \in TestNames, now \in Clock :
        \E b \in Failures(on_test_passed(Ctx(NoFailure), t, now)) :
            Commit(on_test_passed(Ctx(b), t, now), "on_test_passed", t)

OnTestFailed ==
    \E t \in TestNames, now \in Clock :
        \E b \in Failures(on_test_failed(Ctx(NoFailure), t, now)) :
            Commit(on_test_failed(Ctx(b), t, now), "on_test_failed", t)

StartComponent ==
    \E n \in ComponentNames, now \in Clock :
        \E b \in Failures(start_component(Ctx(NoFailure), n, now)) :
            Commit(start_component(Ctx(b), n, now), "start_component", n)

Next ==
    \/ OnSuiteSetup
    \/ OnSuiteTeardown
    \/ OnTestSetup
    \/ OnTestTeardown
    \/ OnTestPassed
    \/ OnTestFailed
    \/ StartComponent

Spec == Init /\ [][Next]_vars

\* ================================================================ claims
TestOps == {"on_test_setup", "on_test_teardown", "on_test_passed", "on_test_failed"}

\* The names of the ingest-client calls of a call log, in order.
CallNames(cs) == [i \in 1..Len(cs) |-> cs[i].call]

\* The entries of a call log that are calls of one kind.
CallsOf(cs, kind) == {i \in 1..Len(cs) : cs[i].call = kind}

\* The value a written attribute map holds under a key name, resolved
\* through the names the ingest client interned.
AttrOf(m, name) == m[CHOOSE h \in DOMAIN m : gw_keys[h] = name]

\* C1: each of on_test_setup, on_test_teardown, on_test_passed and
\* on_test_failed returns NoSuiteActive exactly when no suite is active at
\* the call, and then it makes no ingest-client call and leaves the registry,
\* the key cache, the ordering counter and the nonce counter as they were.
C1_NoSuiteActiveIffNoSuite ==
    [][ lastOp'.op \in TestOps =>
          /\ (result' = NoSuiteActive) <=> (active_suite = None)
          /\ result' = NoSuiteActive =>
                /\ calls' = << >>
                /\ UNCHANGED << tests_to_timelines, attrs, ordering, global_nonce >>
      ]_vars

\* A test-level call returned NoSuiteActive after a suite had run and ended.
C1_Witness ==
    /\ lastOp.op = "on_test_setup"
    /\ result = NoSuiteActive
    /\ tokens # << >>

\* C2 as stated: over the session, client.declare_attr_key is called exactly
\* once for every name requested.
C2_DeclaredExactlyOnce ==
    \A k \in DOMAIN declare_calls : declare_calls[k] = 1

\* C2 amended: client.declare_attr_key succeeds at most once per name; the
\* cache holds exactly the handles of the successful declarations; a name in
\* the cache is never declared again, and no cache entry is removed or
\* replaced.  (A declaration that fails caches nothing, so the next request
\* for the name calls the ingest client again.)
C2_DeclaredOnceSuccessfully ==
    [][ /\ \A i, j \in 1..Len(gw_keys') : gw_keys'[i] = gw_keys'[j] => i = j
        /\ DOMAIN attrs' = {gw_keys'[i] : i \in 1..Len(gw_keys')}
        /\ \A k \in DOMAIN attrs' : gw_keys'[attrs'[k]] = k
        /\ \A i \in CallsOf(calls', "declare_attr_key") :
              calls'[i].key \notin DOMAIN attrs
        /\ \A k \in DOMAIN attrs : k \in DOMAIN attrs' /\ attrs'[k] = attrs[k]
      ]_vars

\* A name whose first declaration failed has been declared again, with
\* success, and a later call used cached handles without declaring anything.
C2_Witness ==
    /\ \E k \in DOMAIN attrs : declare_calls[k] = 2
    /\ result = Ok
    /\ CallsOf(calls, "event") # {}
    /\ CallsOf(calls, "declare_attr_key") = {}

\* C3: the ordering counter starts at 0 and grows by exactly 1 with each
\* accepted event and with nothing else: the n-th accepted event carries
\* token n-1, and a call that returns an error leaves the counter unchanged.
C3_OrderingCountsAcceptedEvents ==
    [][ /\ ordering' = Len(tokens')
        /\ \A n \in 1..Len(tokens') : tokens'[n] = n - 1
        /\ ordering' # ordering =>
              /\ ordering' = ordering + 1
              /\ result' = Ok
              /\ \E i \in CallsOf(calls', "event") :
                    calls'[i].ok /\ calls'[i].ord = ordering
        /\ result' # Ok => ordering' = ordering
      ]_vars

\* An event submission failed after one event was accepted, and left the
\* counter at 1.
C3_Witness ==
    /\ \E i \in CallsOf(calls, "event") : ~calls[i].ok
    /\ result = IngestError
    /\ ordering = 1
    /\ tokens = << 0 >>

\* C4: over the whole session the ordering tokens of the accepted events are
\* strictly increasing in submission order, so no token is used twice.
C4_TokensStrictlyIncreasing ==
    \A i, j \in 1..Len(tokens) : i < j => tokens[i] < tokens[j]

\* Events were accepted under two suites and on two timelines.
C4_Witness ==
    /\ Len(tokens) >= 2
    /\ Len(metadata) = 2
    /\ AttrOf(metadata[1].attrs, "timeline.robot_framework.suite.name")
         # AttrOf(metadata[2].attrs, "timeline.robot_framework.suite.name")
    /\ \E i \in CallsOf(calls, "event") :
          calls[i].ok /\ calls[i].tl = metadata[2].timeline

\* C5: on_test_setup(t) for a t the registry holds (set up before and not
\* torn down since) opens the identity the registry holds, keeps it, and
\* writes no timeline metadata; no identity has its metadata written twice.
C5_SecondSetupReusesTimeline ==
    [][ /\ (lastOp'.op = "on_test_setup" /\ lastOp'.arg \in DOMAIN tests_to_timelines) =>
              /\ lastOp'.arg \in DOMAIN tests_to_timelines'
              /\ tests_to_timelines'[lastOp'.arg] = tests_to_timelines[lastOp'.arg]
              /\ \A i \in CallsOf(calls', "open_timeline") :
                    calls'[i].tl = tests_to_timelines[lastOp'.arg]
              /\ CallsOf(calls', "timeline_metadata") = {}
              /\ metadata' = metadata
        /\ \A i, j \in 1..Len(metadata') :
              metadata'[i].timeline = metadata'[j].timeline => i = j
      ]_vars

\* A second on_test_setup emitted its event on the timeline whose metadata
\* the first one wrote, and wrote none.
C5_Witness ==
    /\ lastOp.op = "on_test_setup"
    /\ result = Ok
    /\ CallsOf(calls, "timeline_metadata") = {}
    /\ Len(metadata) = 1
    /\ \E i \in CallsOf(calls, "event") :
          calls[i].ok /\ calls[i].tl = metadata[1].timeline

\* C6: on_test_teardown(t) under an active suite leaves t out of the
\* registry, and on_test_setup(t) for a t the registry does not hold gives t
\* an identity that no earlier allocation returned and no other test holds,
\* and, when it succeeds, has written that timeline's metadata.
C6_TeardownThenSetupIsFresh ==
    [][ /\ (lastOp'.op = "on_test_teardown" /\ result' # NoSuiteActive) =>
              lastOp'.arg \notin DOMAIN tests_to_timelines'
        /\ ( /\ lastOp'.op = "on_test_setup"
             /\ result' # NoSuiteActive
             /\ lastOp'.arg \notin DOMAIN tests_to_timelines ) =>
              /\ lastOp'.arg \in DOMAIN tests_to_timelines'
              /\ LET id == tests_to_timelines'[lastOp'.arg] IN
                 /\ id \notin 1..(next_timeline - 1)
                 /\ \A t \in DOMAIN tests_to_timelines : tests_to_timelines[t] # id
                 /\ \A i \in 1..Len(metadata) : metadata[i].timeline # id
                 /\ result' = Ok =>
                       \E i \in CallsOf(calls', "timeline_metadata") :
                           calls'[i].ok /\ calls'[i].tl = id
      ]_vars

\* The same test name was set up, torn down and set up again: it holds a
\* second identity, and both timelines had their metadata written.
C6_Witness ==
    /\ lastOp.op = "on_test_setup"
    /\ result = Ok
    /\ Len(metadata) = 2
    /\ metadata[1].timeline # metadata[2].timeline
    /\ AttrOf(metadata[1].attrs, "timeline.robot_framework.test.name") = lastOp.arg
    /\ AttrOf(metadata[2].attrs, "timeline.robot_framework.test.name") = lastOp.arg
    /\ tests_to_timelines[lastOp.arg] = metadata[2].timeline

\* C7: with a suite active, on_test_passed, on_test_failed and
\* on_test_teardown for a test the registry does not hold return Ok, make no
\* ingest-client call and change nothing: no registry entry, no allocation,
\* the ordering counter as it was.
C7_AbsentTestIsNoOp ==
    [][ ( /\ lastOp'.op \in {"on_test_passed", "on_test_failed", "on_test_teardown"}
          /\ active_suite # None
          /\ lastOp'.arg \notin DOMAIN tests_to_timelines ) =>
            /\ result' = Ok
            /\ calls' = << >>
            /\ UNCHANGED << session, gateway, next_timeline >>
      ]_vars

\* on_test_passed ran for a test that had been torn down.
C7_Witness ==
    /\ lastOp.op = "on_test_passed"
    /\ result = Ok
    /\ calls = << >>
    /\ active_suite # None
    /\ lastOp.arg \notin DOMAIN tests_to_timelines
    /\ next_timeline > 1

\* C8: on_suite_teardown with a suite active calls close_timeline and then
\* flush, and ends with no suite active and no timeline bound; with no suite
\* active it returns Ok, calls nothing and changes nothing.
C8_SuiteTeardown ==
    [][ lastOp'.op = "on_suite_teardown" =>
          IF active_suite # None
          THEN /\ CallNames(calls') = << "close_timeline", "flush" >>
               /\ active_suite' = None
               /\ gw_selected' = NoTimeline
          ELSE /\ result' = Ok
               /\ calls' = << >>
               /\ UNCHANGED << session, gateway >>
      ]_vars

\* A suite that had a timeline bound was torn down.
C8_Witness ==
    /\ lastOp.op = "on_suite_teardown"
    /\ result = Ok
    /\ CallNames(calls) = << "close_timeline", "flush" >>
    /\ calls[1].tl # NoTimeline
    /\ active_suite = None
    /\ gw_selected = NoTimeline

\* The state and call log a method leaves are those of the context c.
Outcome(c) ==
    /\ active_suite' = c.active_suite
    /\ tests_to_timelines' = c.tests_to_timelines
    /\ global_nonce' = c.global_nonce
    /\ ordering' = c.ordering
    /\ attrs' = c.attrs
    /\ gw_selected' = c.gw_selected
    /\ gw_keys' = c.gw_keys
    /\ declare_calls' = c.declare_calls
    /\ metadata' = c.metadata
    /\ tokens' = c.tokens
    /\ calls' = c.calls
    /\ result' = c.err

\* C9: on_suite_setup(S2) while a suite is active makes the calls
\* close_timeline, flush; when the flush succeeds it leaves the state and the
\* call sequence that on_suite_teardown() followed by on_suite_setup(S2)
\* leave, and when the flush fails it returns the error and S2 is not active.
C9_SetupWhileActiveIsTeardownThenSetup ==
    [][ (lastOp'.op = "on_suite_setup" /\ active_suite # None) =>
          /\ CallNames(calls') = << "close_timeline", "flush" >>
          /\ IF calls'[2].ok
             THEN Outcome(on_suite_setup(on_suite_teardown(Ctx(NoFailure)),
                                         lastOp'.arg))
             ELSE /\ result' = IngestError
                  /\ active_suite' # lastOp'.arg
      ]_vars

\* on_suite_setup("S2") ran while "S1" was active and had a timeline bound.
C9_Witness ==
    /\ lastOp = [op |-> "on_suite_setup", arg |-> "S2"]
    /\ result = Ok
    /\ CallNames(calls) = << "close_timeline", "flush" >>
    /\ calls[1].tl # NoTimeline
    /\ active_suite = "S2"
    /\ Len(metadata) >= 1
    /\ AttrOf(metadata[1].attrs, "timeline.robot_framework.suite.name") = "S1"

\* C10: with MODALITY_RUN_ID unset, all timelines of the session carry the
\* same timeline.run_id.
C10_SameRunIdOnEveryTimeline ==
    run_id_env = None =>
        \A i, j \in 1..Len(metadata) :
            AttrOf(metadata[i].attrs, "timeline.run_id")
              = AttrOf(metadata[j].attrs, "timeline.run_id")

\* The accepted metadata writes that name a timeline.
WritesFor(md, id) == {i \in 1..Len(md) : md[i].timeline = id}

\* The identities the registry holds.
Held(reg) == {reg[t] : t \in DOMAIN reg}

\* C11: a test name set up under one suite and set up again under another
\* suite, without an on_test_teardown of that name between, gets another
\* timeline identity than the one whose metadata names the earlier suite.
C11_NewIdentityPerSuiteRun ==
    [][ ( /\ lastOp'.op = "on_test_setup"
          /\ result' = Ok
          /\ lastOp'.arg \in DOMAIN tests_to_timelines
          /\ \E i \in WritesFor(metadata, tests_to_timelines[lastOp'.arg]) :
                AttrOf(metadata[i].attrs, "timeline.robot_framework.suite.name")
                  # active_suite ) =>
            tests_to_timelines'[lastOp'.arg] # tests_to_timelines[lastOp'.arg]
      ]_vars

\* The configured extra attributes, under their prefixed names.
ExtraNames == {ExtraKvs[i][1] : i \in 1..Len(ExtraKvs)}

\* C12: every accepted timeline metadata write holds timeline.name =
\* "robot_framework", the suite and test names of the call, timeline.id = the
\* bound identity, timeline.clock_style = "utc" and a timeline.run_id, plus
\* every configured extra attribute under its prefixed name.
C12_MetadataContents ==
    [][ \A i \in CallsOf(calls', "timeline_metadata") :
          calls'[i].ok =>
            LET m == calls'[i].m
                v(name) == m[CHOOSE h \in DOMAIN m : gw_keys'[h] = name]
                names == {gw_keys'[h] : h \in DOMAIN m}
            IN  /\ names = { "timeline.name", "timeline.robot_framework.suite.name",
                             "timeline.robot_framework.test.name", "timeline.id",
                             "timeline.clock_style", "timeline.run_id" }
                           \cup ExtraNames
                /\ v("timeline.name") = "robot_framework"
                /\ v("timeline.robot_framework.suite.name") = active_suite
                /\ v("timeline.robot_framework.test.name") = lastOp'.arg
                /\ v("timeline.id") = calls'[i].tl
                /\ v("timeline.clock_style") = "utc"
                /\ \A j \in 1..Len(ExtraKvs) : v(ExtraKvs[j][1]) = ExtraKvs[j][2]
      ]_vars

\* C13: the nonce counter starts at 1; start_component, and no other
\* method, moves it, by exactly 1 and whether or not the ordering counter
\* moves; a successful start_component returns the value the counter had,
\* which is above every value it had before, and its event carries that
\* value as event.nonce.
C13_NonceCounter ==
    /\ global_nonce = InitialNonce
    /\ [][ /\ lastOp'.op # "start_component" => global_nonce' = global_nonce
           /\ lastOp'.op = "start_component" =>
                 /\ global_nonce' = global_nonce + 1
                 /\ result' = Ok =>
                       /\ returned' = global_nonce
                       /\ returned' >= InitialNonce
                       /\ \E i \in CallsOf(calls', "event") :
                             LET m == calls'[i].m
                                 v(name) == m[CHOOSE h \in DOMAIN m : gw_keys'[h] = name]
                             IN  /\ calls'[i].ok
                                 /\ v("event.name") = "start_component"
                                 /\ v("event.nonce") = returned'
                                 /\ v("event.component_name") = lastOp'.arg
         ]_vars

\* start_component returned 2 while one event had been accepted: its first
\* call had failed and had used up nonce 1.
C13_Witness ==
    /\ lastOp.op = "start_component"
    /\ result = Ok
    /\ returned = 2
    /\ global_nonce = 3
    /\ ordering = 2

\* The successful key declarations among the first j calls of a call log.
DeclaredUpTo(cs, j) ==
    {d \in CallsOf(cs, "declare_attr_key") : d <= j /\ cs[d].ok}

\* C14: on_test_setup for a test that has no timeline calls, in this order,
\* open_timeline(id) with the new identity, key declarations, one metadata
\* write, key declarations, the test_setup event (a failing call ends the
\* sequence, a success has all of it); and in every operation each key
\* handle in the map of a metadata write or an event is the handle the cache
\* holds for its name, returned by a successful declaration in an earlier
\* operation or earlier in this one.
C14_HandshakeOrder ==
    [][ LET cs == calls'
            writes == CallsOf(cs, "timeline_metadata")
            events == CallsOf(cs, "event")
        IN  /\ ( /\ lastOp'.op = "on_test_setup"
                 /\ active_suite # None
                 /\ lastOp'.arg \notin DOMAIN tests_to_timelines ) =>
                   /\ CallsOf(cs, "open_timeline") = {1}
                   /\ cs[1].tl = tests_to_timelines'[lastOp'.arg]
                   /\ \A i \in 1..Len(cs) :
                         cs[i].call \in {"open_timeline", "declare_attr_key",
                                         "timeline_metadata", "event"}
                   /\ Cardinality(writes) <= 1
                   /\ Cardinality(events) <= 1
                   /\ \A w \in writes : cs[w].tl = cs[1].tl
                   /\ \A e \in events :
                         /\ e = Len(cs)
                         /\ cs[e].tl = cs[1].tl
                         /\ \E w \in writes : w < e /\ cs[w].ok
                         /\ {gw_keys'[h] : h \in DOMAIN cs[e].m} =
                               {"event.name", "event.suite.name",
                                "event.test.name", "event.timestamp"}
                   /\ result' = Ok => writes # {} /\ events # {}
            /\ \A i \in writes \cup events :
                  \A h \in DOMAIN cs[i].m :
                     /\ h \in 1..Len(gw_keys')
                     /\ attrs'[gw_keys'[h]] = h
                     /\ \/ h <= Len(gw_keys)
                        \/ \E d \in DeclaredUpTo(cs, i) :
                              /\ cs[d].key = gw_keys'[h]
                              /\ h = Len(gw_keys) + Cardinality(DeclaredUpTo(cs, d))
      ]_vars

\* A first on_test_setup succeeded: it declared keys before its metadata
\* write and again before its event.
C14_Witness ==
    /\ lastOp.op = "on_test_setup"
    /\ result = Ok
    /\ Len(metadata) = 1
    /\ \E w \in CallsOf(calls, "timeline_metadata") :
          /\ \E d \in DeclaredUpTo(calls, w) : d > 1
          /\ \E d \in CallsOf(calls, "declare_attr_key") : d > w /\ calls[d].ok
    /\ calls[Len(calls)].call = "event"

\* The event name each test-level method submits.
EventNameOf(op) == IF op = "on_test_setup" THEN "test_setup"
                   ELSE IF op = "on_test_teardown" THEN "test_teardown"
                   ELSE "test_result"

\* What C15 says of the payload and of the registry, given the identity idOf
\* the events of the step are expected on (NoTimeline: none).
TestEventsOn(idOf, teardown_removes) ==
    LET t == lastOp'.arg
        op == lastOp'.op
    IN  op \in TestOps =>
          /\ \A i \in CallsOf(calls', "event") :
                LET m == calls'[i].m
                    v(name) == m[CHOOSE h \in DOMAIN m : gw_keys'[h] = name]
                IN  /\ idOf # NoTimeline
                    /\ calls'[i].tl = idOf
                    /\ v("event.name") = EventNameOf(op)
                    /\ v("event.test.name") = t
                    /\ op = "on_test_passed" =>
                          /\ v("event.test.result") = "passed"
                          /\ v("event.test.result.code") = 0
                    /\ op = "on_test_failed" =>
                          /\ v("event.test.result") = "failed"
                          /\ v("event.test.result.code") = 1
          /\ op \in {"on_test_passed", "on_test_failed"} =>
                tests_to_timelines' = tests_to_timelines
          /\ (op = "on_test_teardown" /\ teardown_removes) =>
                tests_to_timelines' = MapRemove(tests_to_timelines, t)

\* C15 as stated: every test_setup, test_teardown and test_result event for
\* t goes to the identity the registry held for t when the method was
\* called; passed carries "passed"/0 and failed "failed"/1; passed and
\* failed keep t's entry and on_test_teardown removes it.
C15_EventsOnIdentityHeldAtStart ==
    [][ TestEventsOn(IF lastOp'.arg \in DOMAIN tests_to_timelines
                     THEN tests_to_timelines[lastOp'.arg] ELSE NoTimeline,
                     TRUE)
      ]_vars

\* C15, amended: the events go to the identity the method resolved for t,
\* which is the one the registry held when the method was called or, for an
\* on_test_setup of a test that had none, the one allocated in that call;
\* on_test_teardown removes t's entry when a suite is active and leaves the
\* registry alone when it returns NoSuiteActive.
C15_EventsOnResolvedIdentity ==
    [][ /\ TestEventsOn(IF lastOp'.arg \in DOMAIN tests_to_timelines
                        THEN tests_to_timelines[lastOp'.arg]
                        ELSE IF lastOp'.op = "on_test_setup"
                                /\ lastOp'.arg \in DOMAIN tests_to_timelines'
                             THEN tests_to_timelines'[lastOp'.arg]
                             ELSE NoTimeline,
                        active_suite # None)
        /\ ( /\ lastOp'.op = "on_test_setup"
             /\ lastOp'.arg \notin DOMAIN tests_to_timelines
             /\ active_suite # None ) =>
               /\ lastOp'.arg \in DOMAIN tests_to_timelines'
               /\ tests_to_timelines'[lastOp'.arg] = next_timeline
        /\ (lastOp'.op \in TestOps /\ active_suite = None) =>
               tests_to_timelines' = tests_to_timelines
      ]_vars

\* on_test_failed submitted its event on the identity of a test whose first
\* timeline had been torn down.
C15_Witness ==
    /\ lastOp = [op |-> "on_test_failed", arg |-> "T1"]
    /\ result = Ok
    /\ "T1" \in DOMAIN tests_to_timelines
    /\ tests_to_timelines["T1"] = 2
    /\ \E i \in CallsOf(calls, "event") :
          /\ calls[i].ok
          /\ calls[i].tl = 2
          /\ AttrOf(calls[i].m, "event.test.result.code") = 1

\* C16: every event submission, those of start_component included, is made
\* while a timeline is bound at the ingest client.
C16_EventsOnlyWithTimelineBound ==
    \A i \in CallsOf(calls, "event") : calls[i].tl # NoTimeline

\* C17: whichever ingest-client calls fail, every timeline an event was
\* accepted on has had its metadata written successfully before that event.
C17_MetadataBeforeEvents ==
    \A i \in CallsOf(calls, "event") :
       calls[i].ok => WritesFor(metadata, calls[i].tl) # {}

\* C18: on_suite_teardown clears the active suite before it flushes. When
\* the flush fails, in on_suite_teardown or in the implicit teardown of
\* on_suite_setup, no suite is active afterwards; with no suite active every
\* test-level method returns NoSuiteActive without an ingest-client call,
\* and on_suite_setup makes no close or flush and succeeds.
C18_FailedFlushLeavesNoSuite ==
    [][ /\ ( /\ lastOp'.op \in {"on_suite_setup", "on_suite_teardown"}
             /\ result' = IngestError ) =>
               /\ active_suite # None
               /\ active_suite' = None
               /\ gw_selected' = NoTimeline
               /\ CallNames(calls') = <<"close_timeline", "flush">>
               /\ ~calls'[2].ok
        /\ (lastOp'.op \in TestOps /\ active_suite = None) =>
               /\ result' = NoSuiteActive
               /\ calls' = << >>
        /\ (lastOp'.op = "on_suite_setup" /\ active_suite = None) =>
               /\ result' = Ok
               /\ calls' = << >>
               /\ active_suite' = lastOp'.arg
      ]_vars

\* on_suite_setup("S2") failed in the flush of the implicit teardown: no
\* suite is active.
C18_Witness ==
    /\ lastOp = [op |-> "on_suite_setup", arg |-> "S2"]
    /\ result = IngestError
    /\ active_suite = None
    /\ CallNames(calls) = <<"close_timeline", "flush">>

\* C19: with a suite active, on_test_teardown(t) removes t's entry before
\* any ingest-client call, so the entry is gone also when open_timeline, a
\* key declaration or the event fails; on_test_teardown of a test without an
\* entry succeeds without a call; and a test_teardown event is only ever
\* submitted on an identity the registry holds at that time, while an
\* identity that has left the registry never comes back, so none is
\* submitted later on the timeline of a failed teardown.
C19_FailedTeardownStillRemoves ==
    [][ /\ (lastOp'.op = "on_test_teardown" /\ active_suite # None) =>
               /\ lastOp'.arg \notin DOMAIN tests_to_timelines'
               /\ lastOp'.arg \notin DOMAIN tests_to_timelines =>
                     result' = Ok /\ calls' = << >>
               /\ \A i \in 1..Len(calls') :
                     calls'[i].call \in {"open_timeline", "event"} =>
                        /\ lastOp'.arg \in DOMAIN tests_to_timelines
                        /\ calls'[i].tl = tests_to_timelines[lastOp'.arg]
        /\ \A id \in 1..(next_timeline - 1) :
               id \notin Held(tests_to_timelines) =>
                  id \notin Held(tests_to_timelines')
      ]_vars

\* on_test_teardown failed at an ingest-client call after it had opened the
\* timeline, and the entry is gone.
C19_Witness ==
    /\ lastOp = [op |-> "on_test_teardown", arg |-> "T1"]
    /\ result = IngestError
    /\ "T1" \notin DOMAIN tests_to_timelines
    /\ Len(calls) >= 2
    /\ calls[1].call = "open_timeline"

\* C20: every event a test-level method submits carries, as event.suite.name
\* and event.test.name, the suite name and test name recorded in the
\* metadata of the timeline it is submitted on, also when the suite changes
\* while the test name is still in the registry.
C20_EventNamesMatchMetadata ==
    lastOp.op \in TestOps =>
       \A i \in CallsOf(calls, "event") :
          \A w \in WritesFor(metadata, calls[i].tl) :
             /\ AttrOf(calls[i].m, "event.suite.name") =
                   AttrOf(metadata[w].attrs, "timeline.robot_framework.suite.name")
             /\ AttrOf(calls[i].m, "event.test.name") =
                   AttrOf(metadata[w].attrs, "timeline.robot_framework.test.name")

====
